---------------------------- MODULE Spec2Model ----------------------------
(***************************************************************************)
(* Model of the staging, ordering and sequential execution engine of the   *)
(* Gaussian-splatting pipeline GUI: PipelineManager (core/pipeline_manager *)
(* .py), AsyncExecutor (core/executor.py), the registry built in main.py   *)
(* and the preview widget's move handlers (gui/preview_widget.py).         *)
(*                                                                         *)
(* List positions are the code's 0-based indices; Pos converts them to the *)
(* 1-based positions of TLA+ sequences the way Python resolves an index.   *)
(***************************************************************************)
EXTENDS Integers, Sequences, FiniteSets, TLC

VARIABLES
    staged,               \* PipelineManager.staged_sections
    lastOp,               \* history: the last staging operation, its calls and notifications
    ctx,                  \* PipelineConfiguration.global_context (input_dir, output_dir)
    paths,                \* each section's input_path and output_path
    current_step_index,   \* PipelineManager.current_step_index
    is_sequence_running,  \* PipelineManager.is_sequence_running
    is_running,           \* AsyncExecutor.is_running
    process,              \* AsyncExecutor.process: whether a handle is held, and the worker of its live process
    stop_event,           \* AsyncExecutor._stop_event
    put,                  \* the lines the last step put on AsyncExecutor.output_queue
    status_calls,         \* the _notify_status calls of the last step
    th,                   \* th[1]: the control (Tk) thread; th[w], w > 1: a worker thread and its process, or a free slot
    runs,                 \* history: one record per run_sequence call that entered Running(0)
    stopped,              \* history: the runs stop_sequence has been called on
    budget                \* the user operations made so far

stagingVars == <<staged, lastOp>>

managerVars == <<current_step_index, is_sequence_running, paths>>

executorVars == <<is_running, process, stop_event>>

vars == <<staged, lastOp, ctx, paths, current_step_index, is_sequence_running,
          is_running, process, stop_event, put, status_calls, th, runs,
          stopped, budget>>

(* Bounds *)
MaxStages == 2      \* longest staging list a run starts from
MaxCalls == 2       \* run_sequence and stop_sequence calls
MaxLines == 2       \* output lines one process writes
MaxEdits == 1       \* staging operations made after the first run_sequence call
RankDepth == 2      \* how far below zero a category's stage_index goes
MinRank == -RankDepth
MaxRank == 1        \* highest stage_index given to a category
MaxPasses == 4      \* passes of the order-repair loop that are followed

-----------------------------------------------------------------------------
(* The registry of main.py *)

Categories ==
    << [name |-> "Preprocessing", selection_mode |-> "MULTI", stage_index |-> 1,
        sections |-> <<"Frame Extraction", "Blur Filter", "Deduplicate Frames">>],
       [name |-> "Structure from Motion", selection_mode |-> "SINGLE", stage_index |-> 2,
        sections |-> <<"COLMAP", "GLOMAP (Global)">>],
       [name |-> "Training", selection_mode |-> "SINGLE", stage_index |-> 3,
        sections |-> <<"Standard 3DGS">>] >>

Range(s) == {s[i] : i \in 1..Len(s)}

Sections == UNION {Range(Categories[c].sections) : c \in 1..Len(Categories)}

\* The category a lookup returns when no category holds the section (None).
NoCategory == 0

\* _find_category_for_section over the registry: the first category whose
\* sections hold the section, as a position in Categories.
CategoryOf ==
    [section \in Sections |->
        CHOOSE c \in 1..Len(Categories) :
            /\ section \in Range(Categories[c].sections)
            /\ \A d \in 1..(c - 1) : section \notin Range(Categories[d].sections)]

\* _find_category_for_section: None for a section no category holds.
find_category_for_section(section) ==
    IF section \in Sections THEN CategoryOf[section] ELSE NoCategory

StageIndexOf == [section \in Sections |-> Categories[CategoryOf[section]].stage_index]

stage_index(section) == StageIndexOf[section]

-----------------------------------------------------------------------------
(* Python list primitives *)

\* list.remove(x): drops the first occurrence of x.
RECURSIVE Remove(_, _)
Remove(list, x) ==
    IF list = <<>> THEN <<>>
    ELSE IF Head(list) = x THEN Tail(list)
    ELSE <<Head(list)>> \o Remove(Tail(list), x)

\* The 1-based position Python reads for list[i]; 0 when list[i] raises IndexError.
Pos(list, i) ==
    IF 0 <= i /\ i < Len(list) THEN i + 1
    ELSE IF i < 0 /\ -Len(list) <= i THEN Len(list) + i + 1
    ELSE 0

-----------------------------------------------------------------------------
(* PipelineManager: staging *)

\* _validate_order: scans with last_index = -1; False at the first section
\* whose category's stage_index is below the previous one's.
RECURSIVE validate_order_from(_, _, _)
validate_order_from(list, i, last_index) ==
    IF i > Len(list) THEN TRUE
    ELSE IF find_category_for_section(list[i]) = NoCategory
         THEN validate_order_from(list, i + 1, last_index)
    ELSE IF stage_index(list[i]) < last_index THEN FALSE
    ELSE validate_order_from(list, i + 1, stage_index(list[i]))

validate_order(list) == validate_order_from(list, 1, -1)

\* move_staged_item: the swap and its result.  The bounds test is on
\* new_index only; list[index] is then read with Python's indexing, so
\* index = -1 reads the last element and index = len raises IndexError
\* before anything is assigned.
move_staged_item(list, index, direction) ==
    LET new_index == index + direction
        p == Pos(list, index)
    IN  IF 0 <= new_index /\ new_index < Len(list)
        THEN IF p = 0 THEN [list |-> list, ret |-> "IndexError"]
             ELSE [list |-> [list EXCEPT ![p] = list[new_index + 1],
                                         ![new_index + 1] = list[p]],
                   ret |-> "True"]
        ELSE [list |-> list, ret |-> "False"]

\* One record per move_staged_item call.
Call(list, index, direction) ==
    LET r == move_staged_item(list, index, direction)
    IN  [index |-> index, direction |-> direction, before |-> list,
         after |-> r.list, ret |-> r.ret]

\* A mutant of repair_pass that also moves a section up past a section of
\* its own rank.
RECURSIVE repair_pass_eager(_, _, _, _)
repair_pass_eager(list, index, last_index, calls) ==
    IF index >= Len(list) THEN [list |-> list, calls |-> calls]
    ELSE LET section == list[index + 1]
         IN  IF stage_index(section) <= last_index
             THEN LET c == Call(list, index, -1)
                  IN  repair_pass_eager(c.after, index + 1, stage_index(section),
                                        Append(calls, c))
             ELSE repair_pass_eager(list, index + 1, stage_index(section), calls)

\* One pass of the repair loop's for statement (lines 59-65): index runs over
\* the positions of the live list; a section ranked below last_index is moved
\* one place up, and last_index becomes that section's rank either way.
\* Returns the list and the move_staged_item calls made.
RECURSIVE repair_pass(_, _, _, _)
repair_pass(list, index, last_index, calls) ==
    IF index >= Len(list) THEN [list |-> list, calls |-> calls]
    ELSE LET section == list[index + 1]
         IN  IF find_category_for_section(section) = NoCategory
             THEN repair_pass(list, index + 1, last_index, calls)
             ELSE IF stage_index(section) < last_index
                  THEN LET c == Call(list, index, -1)
                       IN  repair_pass(c.after, index + 1, stage_index(section),
                                       Append(calls, c))
                  ELSE repair_pass(list, index + 1, stage_index(section), calls)

\* A mutant of repair that leaves the list as it was appended to.
repair_skip(list, calls) == [list |-> list, calls |-> calls]

\* The while loop of toggle_section_stage (line 58).
RECURSIVE repair(_, _)
repair(list, calls) ==
    IF validate_order(list) THEN [list |-> list, calls |-> calls]
    ELSE LET r == repair_pass(list, 0, -1, <<>>)
         IN  repair(r.list, calls \o r.calls)

\* Lines 51-55: the other staged sections of a SINGLE category are removed.
RECURSIVE evict_others(_, _, _)
evict_others(list, sections, section) ==
    IF sections = <<>> THEN list
    ELSE IF Head(sections) \in Range(list) /\ Head(sections) # section
         THEN evict_others(Remove(list, Head(sections)), Tail(sections), section)
         ELSE evict_others(list, Tail(sections), section)

\* A mutant of single_select that evicts nothing.
single_select_none(list, section) == list

single_select(list, section) ==
    LET parent_cat == find_category_for_section(section)
    IN  IF parent_cat # NoCategory /\ Categories[parent_cat].selection_mode = "SINGLE"
        THEN evict_others(list, Categories[parent_cat].sections, section)
        ELSE list

\* A mutant of is_staged that finds no section staged.
is_staged_never(list, section) == FALSE

\* `section in self.staged_sections` (line 47).
is_staged(list, section) == section \in Range(list)

\* A mutant of deactivate that drops the last staged section.
deactivate_last(list, section) ==
    IF list = <<>> THEN list ELSE SubSeq(list, 1, Len(list) - 1)

\* Lines 66-68: the section is removed if it is staged.
deactivate(list, section) ==
    IF is_staged(list, section) THEN Remove(list, section) ELSE list

\* toggle_section_stage without its notification: the list and the
\* move_staged_item calls of the repair.
toggle_result(list, section, active) ==
    IF active
    THEN LET appended == IF ~is_staged(list, section)
                         THEN Append(single_select(list, section), section)
                         ELSE list
         IN  repair(appended, <<>>)
    ELSE [list |-> deactivate(list, section), calls |-> <<>>]

\* The lists the staging listeners re-read: one per successful
\* move_staged_item call, then `last` when the operation itself notifies.
RECURSIVE Notified(_)
Notified(calls) ==
    IF calls = <<>> THEN <<>>
    ELSE (IF Head(calls).ret = "True" THEN <<Head(calls).after>> ELSE <<>>)
         \o Notified(Tail(calls))

\* The filesystem facts of a call that read none.
NoEnv ==
    [input_exists |-> FALSE, output_exists |-> FALSE, output_writable |-> FALSE,
     has_parent |-> FALSE, parent_exists |-> FALSE, parent_writable |-> FALSE]

NoOp ==
    [op |-> "none", section |-> "", active |-> FALSE, index |-> 0, direction |-> 0,
     before |-> <<>>, ret |-> "None", calls |-> <<>>, notified |-> <<>>, env |-> NoEnv,
     ranks |-> <<>>, passes |-> 0]

\* toggle_section_stage(section, active)
toggle_section_stage(section, active) ==
    LET r == toggle_result(staged, section, active)
    IN  /\ staged' = r.list
        /\ lastOp' = [NoOp EXCEPT !.op = "toggle", !.section = section,
                        !.active = active, !.before = staged, !.calls = r.calls,
                        !.notified = Notified(r.calls) \o <<r.list>>]

\* move_staged_item(index, direction) called on the manager.
move_staged_item_call(index, direction) ==
    LET c == Call(staged, index, direction)
    IN  /\ staged' = c.after
        /\ lastOp' = [NoOp EXCEPT !.op = "move", !.index = index,
                        !.direction = direction, !.before = staged, !.ret = c.ret,
                        !.calls = <<c>>, !.notified = Notified(<<c>>)]

\* _validate_movement: reads staged_sections[index] and [index + direction]
\* with Python's indexing and compares the two categories.
validate_movement(list, index, direction) ==
    LET p == Pos(list, index)
        q == Pos(list, index + direction)
    IN  IF p = 0 \/ q = 0 THEN "IndexError"
        ELSE IF find_category_for_section(list[p]) = find_category_for_section(list[q])
             THEN "True" ELSE "False"

\* PreviewWidget._move_up / _move_down: the selected row idx is moved only
\* when _validate_movement allows it.
preview_move(idx, direction) ==
    LET v == validate_movement(staged, idx, direction)
        c == Call(staged, idx, direction)
    IN  IF v = "True"
        THEN /\ staged' = c.after
             /\ lastOp' = [NoOp EXCEPT !.op = "preview_move", !.index = idx,
                             !.direction = direction, !.before = staged,
                             !.ret = c.ret, !.calls = <<c>>,
                             !.notified = Notified(<<c>>)]
        ELSE /\ staged' = staged
             /\ lastOp' = [NoOp EXCEPT !.op = "preview_move", !.index = idx,
                             !.direction = direction, !.before = staged, !.ret = v]

-----------------------------------------------------------------------------------------------------------------------------------------------------
(* Paths, output lines and threads *)

\* A path is a sequence of components; "" is the empty sequence.
EmptyPath == <<>>

\* A mutant of intermediate_path that gives every step the global output
\* directory.
intermediate_path_global(output_dir, name) == output_dir

\* os.path.join(output_dir, "intermediate", section.name) (line 214).
intermediate_path(output_dir, name) == output_dir \o <<"intermediate", name>>

\* One line of the output queue: its text's fixed part, and the step number,
\* section name and path the text carries.
Line(tag, n, sec, path) == [tag |-> tag, n |-> n, sec |-> sec, path |-> path]

Msg(tag) == Line(tag, 0, "", EmptyPath)

\* One _notify_status(index, status) call.
Status(index, status) == [idx |-> index, status |-> status]

\* self.process = None; a handle whose process has exited keeps worker = 0.
NoProcess == [handle |-> FALSE, worker |-> 0]

Ctl == 1

Workers == 2..Len(th)

IdleThread ==
    [pc |-> "idle", run |-> 0, sec |-> "", idx |-> 0, k |-> 0, rc |-> 0,
     alive |-> FALSE, spawned |-> FALSE, out |-> 0, nread |-> 0, term |-> FALSE,
     late |-> FALSE, cbs |-> 0, cut |-> FALSE]

\* A thread that is in no call: the control thread back in the Tk main loop,
\* a worker thread ended.  Its locals are gone.
Rest(t) == IF t = Ctl THEN IdleThread ELSE [IdleThread EXCEPT !.pc = "done"]

\* Thread t moves on to pc inside _run_next_in_sequence or run_command.
Goto(t, pc) == [th EXCEPT ![t].pc = pc]

\* The thread run_command starts (lines 34-39) for the command of section sec,
\* built at staging index idx by a thread of run `run`.
NewWorker(run, sec, idx) ==
    [IdleThread EXCEPT !.pc = "start", !.run = run, !.sec = sec, !.idx = idx,
                       !.late = run \in stopped]

\* History of one run: whether every validation and exit so far succeeded,
\* whether it reached "Sequence Complete", and the processes it spawned and
\* their exits, in the order they happened (see LogRun).
NewRun == [ok |-> TRUE, completed |-> FALSE, log |-> <<>>, notes |-> {}]

\* One entry of a run's log: Popen returned for the step at staging index
\* idx, or that step's process exited with code rc.
Spawned(idx) == [ev |-> "spawn", idx |-> idx, rc |-> 0]

Exited(idx, rc) == [ev |-> "exit", idx |-> idx, rc |-> rc]

\* A log entry: validate() of the step at staging index idx returned False.
Invalid(idx) == [ev |-> "invalid", idx |-> idx, rc |-> 0]

NoteRun(r, field, value) ==
    IF r \in 1..Len(runs) THEN [runs EXCEPT ![r][field] = value] ELSE runs

\* The log is kept while the run's run_sequence call is the only call made,
\* and dropped at the next run_sequence or stop_sequence call.
LogRun(rs, r, e) ==
    IF r \in 1..Len(rs) /\ budget.calls = 1
    THEN [rs EXCEPT ![r].log = Append(@, e)] ELSE rs

Forget(rs) == [r \in 1..Len(rs) |-> [rs[r] EXCEPT !.log = <<>>, !.notes = {}]]

\* The statuses notified by the threads of run r (history), kept and dropped
\* as the log is.
NoteStatus(rs, r, st) ==
    IF r \in 1..Len(rs) /\ budget.calls = 1
    THEN [rs EXCEPT ![r].notes = @ \cup {st}] ELSE rs

-----------------------------------------------------------------------------
(* PipelineManager: running *)

\* The facts _validate_pipeline_environment reads from the filesystem.
EnvFacts ==
    [input_exists : BOOLEAN, output_exists : BOOLEAN, output_writable : BOOLEAN,
     has_parent : BOOLEAN, parent_exists : BOOLEAN, parent_writable : BOOLEAN]

\* _validate_pipeline_environment: "ok", or the check that failed.
validate_pipeline_environment(env) ==
    IF ~env.input_exists THEN "input"
    ELSE IF env.output_exists
         THEN (IF ~env.output_writable THEN "output" ELSE "ok")
         ELSE (IF env.has_parent /\ env.parent_exists /\ ~env.parent_writable
               THEN "parent" ELSE "ok")

\* What _validate_pipeline_environment can return on some filesystem.
EnvOutcomes == {validate_pipeline_environment(env) : env \in EnvFacts}

\* The line _validate_pipeline_environment puts when check v fails
\* (lines 164, 171, 176).
env_lines(v) ==
    IF v = "ok" THEN <<>>
    ELSE <<Line("[Manager Error]: Global environment", 0, v, EmptyPath)>>

\* A mutant of environment_passes that lets every run start.
environment_passes_always(v) == TRUE

\* The test of line 135 on the validator's result.
environment_passes(v) == v = "ok"

\* A mutant of empty_guard_lines that reports the empty list twice.
empty_guard_lines_twice ==
    <<Msg("[Manager Error]: No steps staged!"), Msg("[Manager Error]: No steps staged!")>>

\* A mutant of empty_guard_lines that returns without a line.
empty_guard_silent == <<>>

\* What run_sequence puts on the queue for an empty staging list (line 124).
empty_guard_lines == <<Msg("[Manager Error]: No steps staged!")>>

\* A mutant of order_warning that never warns.
order_warning_none(list) == <<>>

\* Line 129.
order_warning(list) ==
    IF validate_order(list) THEN <<>>
    ELSE <<Msg("[Manager WARNING]: Pipeline appears out of order. Running anyway...")>>

\* run_sequence, lines 123-140, on the control thread; _run_next_in_sequence
\* follows as the thread's next steps.
run_sequence ==
    /\ th[Ctl].pc = "idle"
    /\ budget.calls < MaxCalls
    /\ budget' = [budget EXCEPT !.calls = @ + 1]
    /\ IF staged = <<>>
       THEN /\ put' = empty_guard_lines
            /\ runs' = Forget(runs)
            /\ UNCHANGED <<current_step_index, is_sequence_running, th>>
       ELSE \E v \in EnvOutcomes :
                IF ~environment_passes(v)
                THEN /\ put' = order_warning(staged) \o env_lines(v)
                            \o <<Msg("[Manager Error]: Dataset Validation Failed. Aborting")>>
                     /\ runs' = Forget(runs)
                     /\ UNCHANGED <<current_step_index, is_sequence_running, th>>
                ELSE /\ put' = order_warning(staged) \o env_lines(v)
                     /\ current_step_index' = 0
                     /\ is_sequence_running' = TRUE
                     /\ runs' = Append(Forget(runs), NewRun)
                     /\ th' = [th EXCEPT ![Ctl].pc = "nx_check",
                                         ![Ctl].run = Len(runs) + 1]
    /\ status_calls' = <<>>
    /\ UNCHANGED <<staged, lastOp, ctx, paths, is_running, process, stop_event, stopped>>

\* _run_next_in_sequence, line 182, on thread t.
nx_check(t) ==
    /\ th[t].pc = "nx_check"
    /\ th' = IF is_sequence_running THEN Goto(t, "nx_body") ELSE [th EXCEPT ![t] = Rest(t)]
    /\ put' = <<>>
    /\ status_calls' = <<>>
    /\ UNCHANGED <<staged, lastOp, ctx, paths, current_step_index, is_sequence_running,
                   is_running, process, stop_event, runs, stopped, budget>>

\* The input path of the step at index i (lines 201-205).
current_input_of(i) ==
    IF i = 0 THEN ctx.input_dir ELSE paths[staged[i]].output_path

\* The output path of the step at index i (lines 208-214).
current_output_of(i) ==
    IF i = Len(staged) - 1 THEN ctx.output_dir
    ELSE intermediate_path(ctx.output_dir, staged[i + 1])

\* A mutant of invalid_status that reports the step as failed.
invalid_status_failed(i) == Status(i, "Failed")

\* The status notified for a step whose validate() returned False (line 196).
invalid_status(i) == Status(i, "Error")

\* _run_next_in_sequence, lines 185-232, on thread t: the end of the list, or
\* the section's validation, path injection and "Running" status.  (The
\* directory made at lines 217-222 is outside the modelled state.)
nx_body(t) ==
    /\ th[t].pc = "nx_body"
    /\ IF current_step_index >= Len(staged)
       THEN /\ put' = <<Msg("[Manager]: Sequence Complete.")>>
            /\ is_sequence_running' = FALSE
            /\ th' = [th EXCEPT ![t] = Rest(t)]
            /\ runs' = NoteRun(th[t].run, "completed", TRUE)
            /\ status_calls' = <<>>
            /\ UNCHANGED paths
       ELSE LET i == current_step_index
                section == staged[i + 1]
                starting == Line("[Manager]: Starting Step", i + 1, section, EmptyPath)
            IN  \E valid \in BOOLEAN :
                IF ~valid
                THEN /\ put' = <<starting, Line("[Manager]: Step validation failed.",
                                                0, section, EmptyPath)>>
                     /\ is_sequence_running' = FALSE
                     /\ status_calls' = <<invalid_status(i)>>
                     /\ th' = [th EXCEPT ![t] = Rest(t)]
                     /\ runs' = LogRun(NoteRun(th[t].run, "ok", FALSE), th[t].run, Invalid(i))
                     /\ UNCHANGED paths
                ELSE /\ paths' = [paths EXCEPT ![section] =
                                    [input_path |-> current_input_of(i),
                                     output_path |-> current_output_of(i)]]
                     /\ put' = <<starting,
                                 Line("   -> Input:", 0, "", current_input_of(i)),
                                 Line("   -> Output:", 0, "", current_output_of(i))>>
                     /\ status_calls' = <<Status(i, "Running")>>
                     /\ th' = [th EXCEPT ![t].pc = "rc_check", ![t].sec = section,
                                         ![t].idx = i]
                     /\ runs' = NoteStatus(runs, th[t].run, Status(i, "Running"))
                     /\ UNCHANGED is_sequence_running
    /\ UNCHANGED <<staged, lastOp, ctx, current_step_index, is_running, process,
                   stop_event, stopped, budget>>

\* _run_next_in_sequence, lines 185-231, inside the completion callback of
\* worker w, when section.build_command() raises (line 231): the paths are
\* set and logged, and the exception leaves the callback into the except
\* clause of _worker (lines 81-83).
nx_raise(w) ==
    /\ th[w].pc = "nx_body"
    /\ current_step_index < Len(staged)
    /\ LET i == current_step_index
           section == staged[i + 1]
       IN  /\ paths' = [paths EXCEPT ![section] =
                          [input_path |-> current_input_of(i),
                           output_path |-> current_output_of(i)]]
           /\ put' = <<Line("[Manager]: Starting Step", i + 1, section, EmptyPath),
                       Line("   -> Input:", 0, "", current_input_of(i)),
                       Line("   -> Output:", 0, "", current_output_of(i))>>
           /\ th' = [th EXCEPT ![w].pc = "except", ![w].rc = -1, ![w].sec = section,
                               ![w].idx = i]
    /\ status_calls' = <<>>
    /\ UNCHANGED <<staged, lastOp, ctx, current_step_index, is_sequence_running, is_running,
                   process, stop_event, runs, stopped, budget>>

\* _on_sequence_step_finished on worker w: the status, then either the read
\* of current_step_index for `+= 1` (line 239) or the failure branch.
cb(w) ==
    /\ th[w].pc = "cb"
    /\ IF th[w].rc = 0
       THEN /\ status_calls' = <<Status(current_step_index, "Completed")>>
            /\ th' = [th EXCEPT ![w] = [IdleThread EXCEPT !.pc = "cb_inc",
                                          !.run = th[w].run, !.k = current_step_index,
                                          !.cbs = th[w].cbs]]
            /\ put' = <<>>
            /\ runs' = NoteStatus(runs, th[w].run, Status(current_step_index, "Completed"))
            /\ UNCHANGED is_sequence_running
       ELSE /\ status_calls' = <<Status(current_step_index, "Failed")>>
            /\ put' = <<Msg("[Manager Error]: Aborted due to failed step")>>
            /\ is_sequence_running' = FALSE
            /\ th' = [th EXCEPT ![w] = Rest(w)]
            /\ runs' = NoteStatus(NoteRun(th[w].run, "ok", FALSE), th[w].run,
                                  Status(current_step_index, "Failed"))
    /\ UNCHANGED <<staged, lastOp, ctx, paths, current_step_index, is_running, process,
                   stop_event, stopped, budget>>

\* A mutant of next_index that passes over a step.
next_index_skip(k) == k + 2

\* The value `self.current_step_index += 1` writes after reading k (line 239).
next_index(k) == k + 1

\* The write of `self.current_step_index += 1` (line 239).
cb_inc(w) ==
    /\ th[w].pc = "cb_inc"
    /\ current_step_index' = next_index(th[w].k)
    /\ th' = [th EXCEPT ![w].pc = "nx_check", ![w].k = 0]
    /\ put' = <<>>
    /\ status_calls' = <<>>
    /\ UNCHANGED <<staged, lastOp, ctx, paths, is_sequence_running, is_running, process,
                   stop_event, runs, stopped, budget>>

-----------------------------------------------------------------------------
(* AsyncExecutor *)

\* A mutant of rejected_start_lines that rejects without a notice.
rejected_start_silent == <<>>

\* What a rejected run_command puts on the queue (line 28).
rejected_start_lines == <<Msg("[System]: A process is already running.")>>

\* run_command, lines 27-29, on thread t: the test of is_running.
rc_check(t) ==
    /\ th[t].pc = "rc_check"
    /\ IF is_running
       THEN /\ put' = rejected_start_lines
            /\ th' = [th EXCEPT ![t] = Rest(t)]
       ELSE /\ th' = Goto(t, "rc_set")
            /\ put' = <<>>
    /\ status_calls' = <<>>
    /\ UNCHANGED <<staged, lastOp, ctx, paths, current_step_index, is_sequence_running,
                   is_running, process, stop_event, runs, stopped, budget>>

\* The slot of the thread that thread t starts: a worker's callback chain
\* ends with the start, so its slot is taken over; the control thread takes
\* the first free slot (each live worker descends from one run_sequence
\* call, so a slot is free).
SlotFor(t) ==
    IF t # Ctl THEN t
    ELSE CHOOSE u \in Workers :
            /\ th[u].pc = "done"
            /\ \A v \in Workers : v < u => th[v].pc # "done"

\* run_command, lines 31-39, on thread t: the flag is set and the worker started.
rc_set(t) ==
    /\ th[t].pc = "rc_set"
    /\ is_running' = TRUE
    /\ stop_event' = FALSE
    /\ th' = [[th EXCEPT ![t] = Rest(t)]
                  EXCEPT ![SlotFor(t)] = NewWorker(th[t].run, th[t].sec, th[t].idx)]
    /\ put' = <<>>
    /\ status_calls' = <<>>
    /\ UNCHANGED <<staged, lastOp, ctx, paths, current_step_index, is_sequence_running,
                   process, runs, stopped, budget>>

\* _worker, lines 53-63: the "Starting command" line, then Popen starts the
\* process or raises.
w_start(w) ==
    /\ th[w].pc = "start"
    /\ put' = <<Line("[System]: Starting command:", 0, th[w].sec, EmptyPath)>>
    /\ \E raised \in BOOLEAN :
       IF raised
       THEN /\ th' = [th EXCEPT ![w].pc = "except", ![w].rc = -1]
            /\ UNCHANGED <<process, runs>>
       ELSE /\ th' = [th EXCEPT ![w].pc = "read", ![w].alive = TRUE, ![w].spawned = TRUE]
            /\ process' = [handle |-> TRUE, worker |-> w]
            /\ runs' = LogRun(runs, th[w].run, Spawned(th[w].idx))
    /\ status_calls' = <<>>
    /\ UNCHANGED <<staged, lastOp, ctx, paths, current_step_index, is_sequence_running,
                   is_running, stop_event, stopped, budget>>

\* The process of worker w writes a line to its pipe.
p_write(w) ==
    /\ th[w].alive
    /\ th[w].out < MaxLines
    /\ th' = [th EXCEPT ![w].out = @ + 1]
    /\ put' = <<>>
    /\ status_calls' = <<>>
    /\ UNCHANGED <<staged, lastOp, ctx, paths, current_step_index, is_sequence_running,
                   is_running, process, stop_event, runs, stopped, budget>>

\* The exit codes of a process: 0 or 1 by itself, -15 killed by terminate().
ExitCodes(w) == IF th[w].term THEN {0, -15} ELSE {0, 1}

\* The process of worker w exits.
p_exit(w) ==
    /\ th[w].alive
    /\ \E code \in ExitCodes(w) :
       /\ th' = [th EXCEPT ![w].alive = FALSE, ![w].rc = code]
       /\ runs' = LogRun(IF code = 0 THEN runs ELSE NoteRun(th[w].run, "ok", FALSE),
                         th[w].run, Exited(th[w].idx, code))
    /\ process' = IF process.worker = w THEN [process EXCEPT !.worker = 0] ELSE process
    /\ put' = <<>>
    /\ status_calls' = <<>>
    /\ UNCHANGED <<staged, lastOp, ctx, paths, current_step_index, is_sequence_running,
                   is_running, stop_event, stopped, budget>>

\* The thread records after worker w put a line of its process on the queue:
\* every other worker that is between two lines of its own process has its
\* block of lines cut by it (history).
Delivered(w) ==
    [u \in 1..Len(th) |->
        IF u = w THEN [th[u] EXCEPT !.nread = @ + 1]
        ELSE IF u # Ctl /\ th[u].pc = "read" /\ th[u].nread > 0
             THEN [th[u] EXCEPT !.cut = TRUE]
             ELSE th[u]]

\* _worker, lines 66-70: one turn of the read loop with a line in the pipe.
\* A line read with the stop event set ends the loop and is not put on the
\* queue.
w_read(w) ==
    /\ th[w].pc = "read"
    /\ th[w].nread < th[w].out
    /\ IF stop_event
       THEN /\ th' = [th EXCEPT ![w].pc = "wait", ![w].nread = @ + 1]
            /\ put' = <<>>
       ELSE /\ th' = Delivered(w)
            /\ put' = <<Line("line", th[w].nread + 1, th[w].sec, EmptyPath)>>
    /\ status_calls' = <<>>
    /\ UNCHANGED <<staged, lastOp, ctx, paths, current_step_index, is_sequence_running,
                   is_running, process, stop_event, runs, stopped, budget>>

\* A mutant of loop_ended that lets the worker go on while lines are unread.
loop_ended_early(w) == th[w].pc \in {"read", "wait"}

\* The for loop of lines 66-70 is over: it was left by break, or readline
\* returned '' with every line of the pipe read.
loop_ended(w) ==
    \/ th[w].pc = "wait"
    \/ th[w].pc = "read" /\ th[w].nread = th[w].out

\* _worker, lines 66-76, once the loop ends (readline returned '' at the end
\* of the pipe of an exited process, or the loop was left by break):
\* stdout.close(), wait() until the process has exited, is_running = False,
\* the final status line.  The callback follows.
w_end(w) ==
    /\ loop_ended(w)
    /\ th[w].spawned
    /\ ~th[w].alive
    /\ is_running' = FALSE
    /\ put' = <<Line("[System]: Process finished with return code", th[w].rc, "", EmptyPath)>>
    /\ th' = [th EXCEPT ![w].pc = "cb", ![w].cbs = @ + 1]
    /\ status_calls' = <<>>
    /\ UNCHANGED <<staged, lastOp, ctx, paths, current_step_index, is_sequence_running,
                   process, stop_event, runs, stopped, budget>>

\* _worker, lines 83-87: an exception was raised inside the try block; the
\* callback follows with -1.
w_except(w) ==
    /\ th[w].pc = "except"
    /\ is_running' = FALSE
    /\ put' = <<Msg("[System]: Error executing command:")>>
    /\ th' = [th EXCEPT ![w].pc = "cb", ![w].cbs = @ + 1]
    /\ runs' = NoteRun(th[w].run, "ok", FALSE)
    /\ status_calls' = <<>>
    /\ UNCHANGED <<staged, lastOp, ctx, paths, current_step_index, is_sequence_running,
                   process, stop_event, stopped, budget>>

\* AsyncExecutor.stop (lines 41-49): the lines it puts.
stop_lines == IF process.handle /\ is_running
              THEN <<Msg("[System]: Terminating process...")>> ELSE <<>>

\* stop_sequence (lines 250-252) with AsyncExecutor.stop (lines 41-49).
stop_sequence ==
    /\ th[Ctl].pc = "idle"
    /\ budget.calls < MaxCalls
    /\ budget' = [budget EXCEPT !.calls = @ + 1]
    /\ is_sequence_running' = FALSE
    /\ stopped' = 1..Len(runs)
    /\ put' = stop_lines
    /\ IF process.handle /\ is_running
       THEN /\ stop_event' = TRUE
            /\ th' = IF process.worker = 0 THEN th
                     ELSE [th EXCEPT ![process.worker].term = TRUE]
       ELSE UNCHANGED <<stop_event, th>>
    /\ runs' = Forget(runs)
    /\ status_calls' = <<>>
    /\ UNCHANGED <<staged, lastOp, ctx, paths, current_step_index, is_running, process>>

-----------------------------------------------------------------------------
(* The user's operations *)

runFrame == <<ctx, paths, current_step_index, is_sequence_running, is_running, process,
              stop_event, put, status_calls, th, runs, stopped, budget>>

Toggle ==
    /\ th[Ctl].pc = "idle"
    /\ \E section \in Sections, active \in BOOLEAN : toggle_section_stage(section, active)
    /\ UNCHANGED runFrame

Move ==
    /\ th[Ctl].pc = "idle"
    /\ \E index \in -1..Len(staged), direction \in {-1, 1} :
            move_staged_item_call(index, direction)
    /\ UNCHANGED runFrame

MoveUp ==
    /\ th[Ctl].pc = "idle"
    /\ \E idx \in 0..(Len(staged) - 1) : preview_move(idx, -1)
    /\ UNCHANGED runFrame

MoveDown ==
    /\ th[Ctl].pc = "idle"
    /\ \E idx \in 0..(Len(staged) - 1) : preview_move(idx, 1)
    /\ UNCHANGED runFrame

NoPaths == [section \in Sections |-> [input_path |-> EmptyPath, output_path |-> EmptyPath]]

\* The program after construction (main.py, PipelineManager.__init__,
\* AsyncExecutor.__init__).
Idle ==
    /\ lastOp = NoOp
    /\ paths = NoPaths
    /\ current_step_index = 0
    /\ is_sequence_running = FALSE
    /\ is_running = FALSE
    /\ process = NoProcess
    /\ stop_event = FALSE
    /\ put = <<>>
    /\ status_calls = <<>>
    /\ th = [t \in 1..(MaxCalls + 1) |-> Rest(t)]
    /\ runs = <<>>
    /\ stopped = {}
    /\ budget = [calls |-> 0, edits |-> 0]

StagingInit ==
    /\ staged = <<>>
    /\ ctx = [input_dir |-> EmptyPath, output_dir |-> EmptyPath]
    /\ Idle

StagingNext == Toggle \/ Move \/ MoveUp \/ MoveDown

\* The staging operations alone, from the empty list.
SpecStaging == StagingInit /\ [][StagingNext]_vars

\* The pipeline in registry order: the staging list after the first two
\* sections of main.py's first category and one section of each later
\* category were toggled on.
Pipeline == <<"Frame Extraction", "Blur Filter", "COLMAP", "Standard 3DGS">>

\* A run starts from a staged prefix of the pipeline, with both paths chosen.
RunInit ==
    /\ staged \in {SubSeq(Pipeline, 1, n) : n \in 0..MaxStages}
    /\ ctx = [input_dir |-> <<"in">>, output_dir |-> <<"out">>]
    /\ Idle

WorkerStep ==
    \E w \in Workers :
        w_start(w) \/ w_end(w) \/ w_except(w) \/ cb(w) \/ cb_inc(w)

ProcessStep == \E w \in Workers : p_exit(w)

SequenceStep == \E t \in 1..Len(th) : nx_check(t) \/ nx_body(t) \/ rc_check(t) \/ rc_set(t)

RunNext == run_sequence \/ stop_sequence \/ SequenceStep \/ WorkerStep \/ ProcessStep

\* Runs and stops of a staged pipeline whose processes write no output.
SpecRun == RunInit /\ [][RunNext]_vars

-----------------------------------------------------------------------------
(* Properties of the staging list *)

\* I1 on a list: ranks never decrease from one stage to the next.
I1(list) ==
    \A i \in 1..(Len(list) - 1) : stage_index(list[i]) <= stage_index(list[i + 1])

\* C1: from the empty list, after every toggle and every move the staging
\* list satisfies I1: the rank of each stage is at most the rank of the
\* stage after it.
C1_OrderAfterEveryOperation == I1(staged)

\* The staged stages of category c.
StagedOf(list, c) == {i \in 1..Len(list) : find_category_for_section(list[i]) = c}

\* I2 on a list: a SINGLE category has at most one stage in it.
I2(list) ==
    \A c \in 1..Len(Categories) :
        Categories[c].selection_mode = "SINGLE" => Cardinality(StagedOf(list, c)) <= 1

\* The last operation activated a stage of a SINGLE category.
ActivatedSingle ==
    /\ lastOp.op = "toggle"
    /\ lastOp.active
    /\ Categories[find_category_for_section(lastOp.section)].selection_mode = "SINGLE"

\* C2: in every state reached by toggles and moves from the empty list a
\* SINGLE category has at most one stage staged, and after a stage of a
\* SINGLE category is activated it is the only staged stage of its category.
C2_SingleSelect ==
    /\ I2(staged)
    /\ ActivatedSingle =>
          \A i \in 1..Len(staged) :
              find_category_for_section(staged[i])
                  = find_category_for_section(lastOp.section)
              => staged[i] = lastOp.section

\* A stage of a SINGLE category was activated while another stage of that
\* category was staged, and it is staged now.
C2_Witness ==
    /\ ActivatedSingle
    /\ \E i \in 1..Len(lastOp.before) :
          /\ lastOp.before[i] # lastOp.section
          /\ find_category_for_section(lastOp.before[i])
                = find_category_for_section(lastOp.section)
    /\ lastOp.section \in Range(staged)

\* The move_staged_item call c names two positions of the list that hold
\* stages of different categories.
CrossesCategory(c) ==
    /\ 0 <= c.index /\ c.index < Len(c.before)
    /\ 0 <= c.index + c.direction /\ c.index + c.direction < Len(c.before)
    /\ find_category_for_section(c.before[c.index + 1])
          # find_category_for_section(c.before[c.index + c.direction + 1])

\* The target of the move_staged_item call c is outside the list.
TargetOutOfBounds(c) ==
    ~(0 <= c.index + c.direction /\ c.index + c.direction < Len(c.before))

\* C3: a move(index, direction) whose two elements belong to different
\* categories, or whose target index is out of bounds, leaves the staging
\* list unchanged and returns False.
C3_MoveRejected ==
    lastOp.op = "move" =>
        LET c == lastOp.calls[1]
        IN  (CrossesCategory(c) \/ TargetOutOfBounds(c))
            => (staged = lastOp.before /\ lastOp.ret = "False")

-----------------------------------------------------------------------------
(* Properties of a run *)

\* The paths of the staged stages are chained from the global input to the
\* global output.
Chained ==
    LET N == Len(staged)
    IN  /\ paths[staged[1]].input_path = ctx.input_dir
        /\ paths[staged[N]].output_path = ctx.output_dir
        /\ \A i \in 1..(N - 1) :
              paths[staged[i]].output_path = paths[staged[i + 1]].input_path

\* Every validation passed and every process exited 0 so far.
AllSucceeded == \A r \in 1..Len(runs) : runs[r].ok

\* C4: once a run over N >= 1 stages in which every stage validated and
\* every process exited 0 has completed, stage 0's input is the global
\* input, stage N-1's output is the global output, and each stage's output
\* is the next stage's input.
C4_Chaining ==
    (AllSucceeded /\ \E r \in 1..Len(runs) : runs[r].completed) => Chained

\* Worker w ends _on_sequence_step_finished for a process that exited nonzero.
FailedStep(w) ==
    /\ th[w].pc = "cb"
    /\ th[w].spawned
    /\ th[w].rc # 0
    /\ th'[w].pc # "cb"

\* C5: when the process of stage k exits nonzero, "Failed" is reported for
\* index k and the run stops.
C5_AbortOnFailure ==
    [][\A w \in Workers :
          FailedStep(w) => /\ status_calls' = <<Status(th[w].idx, "Failed")>>
                           /\ ~is_sequence_running']_vars

\* C6: run() on an empty staging list puts exactly one error line on the
\* queue, starts no thread and no process, and leaves the step index and
\* both running flags as they were.
C6_EmptyGuard ==
    [][(staged = <<>> /\ run_sequence) =>
          /\ put' = <<Msg("[Manager Error]: No steps staged!")>>
          /\ th' = th
          /\ UNCHANGED <<current_step_index, is_sequence_running, is_running, process>>]_vars

\* run() was called on the empty list.
C6_Witness ==
    /\ staged = <<>>
    /\ budget.calls > 0
    /\ put = <<Msg("[Manager Error]: No steps staged!")>>
    /\ \A t \in 1..Len(th) : th[t] = Rest(t)

\* Thread t makes the run_command call while is_running is set.
RejectedStart(t) == is_running /\ rc_check(t)

\* C7: a run_command call made while is_running is set puts exactly one
\* "[System]" notice on the queue, starts no thread and no process, returns
\* without invoking its callback, and leaves is_running, the process handle
\* and the stop event unchanged.
C7_RejectedStart ==
    [][\A t \in 1..Len(th) :
          RejectedStart(t) =>
              /\ put' = <<Msg("[System]: A process is already running.")>>
              /\ UNCHANGED executorVars
              /\ th'[t].pc \in {"idle", "done"}
              /\ \A u \in 1..Len(th) : u # t => th'[u] = th[u]
              /\ status_calls' = <<>>]_vars

\* A run_command call was rejected while a process was alive.
C7_Witness ==
    /\ put = <<Msg("[System]: A process is already running.")>>
    /\ is_running
    /\ \E w \in Workers : th[w].alive

\* The workers between their start and the end of their read loop.
Readers == {w \in Workers : th[w].pc \in {"start", "read", "wait", "except"}}

\* The processes that were started and have not exited.
Alive == {w \in Workers : th[w].alive}

\* C8: whatever the interleaving of the run_command calls of the control
\* thread and of a worker's completion callback, at most one process and at
\* most one reading worker exist at any time.
C8_SingleProcess == Cardinality(Alive) <= 1 /\ Cardinality(Readers) <= 1

\* run() is called while a run is Running and a stage's process is active.
SecondRun ==
    /\ run_sequence
    /\ is_sequence_running
    /\ is_running
    /\ Alive # {}

\* C9: a run() call made while a stage's process is active leaves the step
\* index and every stage's paths unchanged.
C9_SecondRunNoEffect ==
    [][SecondRun => UNCHANGED <<current_step_index, paths>>]_vars

\* C10: no process is spawned by a run_command call that a run made after
\* stop() had been called on it.
C10_NoSpawnAfterStop == \A w \in Workers : th[w].spawned => ~th[w].late

-----------------------------------------------------------------------------
(* Staging operations during a run *)

\* What a staging operation of the Tk thread leaves alone.
editFrame == <<ctx, paths, current_step_index, is_sequence_running, is_running, process,
               stop_event, th, runs, stopped>>

\* LibraryWidget._on_toggle -> toggle_section_stage, between two steps of a run.
EditToggle ==
    /\ th[Ctl].pc = "idle"
    /\ budget.edits < MaxEdits
    /\ \E section \in Sections, active \in BOOLEAN : toggle_section_stage(section, active)
    /\ budget' = [budget EXCEPT !.edits = @ + 1]
    /\ put' = <<>>
    /\ status_calls' = <<>>
    /\ UNCHANGED editFrame

\* move_staged_item, between two steps of a run.
EditMove ==
    /\ th[Ctl].pc = "idle"
    /\ budget.edits < MaxEdits
    /\ \E index \in 0..(Len(staged) - 1), direction \in {-1, 1} :
            move_staged_item_call(index, direction)
    /\ budget' = [budget EXCEPT !.edits = @ + 1]
    /\ put' = <<>>
    /\ status_calls' = <<>>
    /\ UNCHANGED editFrame

EditNext == RunNext \/ EditToggle \/ EditMove

\* Runs and stops of a staged pipeline, with staging operations in between.
SpecEdit == RunInit /\ [][EditNext]_vars

\* C11: while a run is active (is_sequence_running is set) no toggle and no
\* move changes the contents or the order of the staging list.
C11_NoMutationWhileRunning ==
    [][is_sequence_running => staged' = staged]_vars

-----------------------------------------------------------------------------
(* The result of activating a stage *)

\* The stages of the list whose category has rank r, in the list's order.
OfRank(list, r) ==
    LET Has(x) == stage_index(x) = r
    IN  SelectSeq(list, Has)

\* The list sorted by category rank, stages of equal rank keeping their order.
RECURSIVE StableSortFrom(_, _)
StableSortFrom(list, r) ==
    IF r > Len(Categories) THEN <<>>
    ELSE OfRank(list, Categories[r].stage_index) \o StableSortFrom(list, r + 1)

StableSort(list) == StableSortFrom(list, 1)

\* The list without the other stages of the stage's category when that
\* category is SINGLE.
WithoutRivals(list, section) ==
    LET c == find_category_for_section(section)
        Keep(x) == ~(Categories[c].selection_mode = "SINGLE"
                     /\ find_category_for_section(x) = c /\ x # section)
    IN  SelectSeq(list, Keep)

\* The last operation activated a stage that was not staged, on a list
\* satisfying I1.
ActivatedNew ==
    /\ lastOp.op = "toggle"
    /\ lastOp.active
    /\ lastOp.section \notin Range(lastOp.before)
    /\ I1(lastOp.before)

\* C12: toggle(stage, active = true) for a stage that is not in the list,
\* applied to a list that satisfies I1, yields the old list with the other
\* stages of the stage's category removed when that category is SINGLE,
\* then the stage appended, then stably sorted by category rank.
C12_ToggleOnResult ==
    ActivatedNew =>
        staged = StableSort(Append(WithoutRivals(lastOp.before, lastOp.section),
                                   lastOp.section))

\* A second stage of the SINGLE category was activated on a list holding two
\* stages of the MULTI category before the first one: the new stage replaced
\* its rival behind them.
C12_Witness ==
    /\ ActivatedNew
    /\ lastOp.before = <<"Frame Extraction", "Blur Filter", "COLMAP">>
    /\ lastOp.section = "GLOMAP (Global)"
    /\ staged = <<"Frame Extraction", "Blur Filter", "GLOMAP (Global)">>

\* A stage of a lower rank was activated behind a stage of a higher rank and
\* was moved in front of it.
C12_WitnessSorted ==
    /\ ActivatedNew
    /\ lastOp.before = <<"Frame Extraction", "COLMAP">>
    /\ lastOp.section = "Blur Filter"
    /\ staged = <<"Frame Extraction", "Blur Filter", "COLMAP">>

-----------------------------------------------------------------------------
(* A run that succeeds *)

OutputStep == \E w \in Workers : p_write(w) \/ w_read(w)

\* The first run_sequence call.
FirstRun == budget.calls = 0 /\ run_sequence

SoleNext == FirstRun \/ SequenceStep \/ WorkerStep \/ ProcessStep \/ OutputStep

\* One run_sequence call and no stop_sequence call on a staged pipeline whose
\* processes write up to MaxLines lines; the threads are scheduled, a pipe
\* that holds a line is read and a started process comes to its exit.
SpecSoleRun ==
    RunInit /\ [][SoleNext]_vars
        /\ WF_vars(SequenceStep) /\ WF_vars(WorkerStep) /\ WF_vars(ProcessStep)
        /\ WF_vars(OutputStep)

\* One run_sequence call was made and started a run, no stop_sequence call
\* was made, and so far every validation passed, every Popen returned and
\* every exit code was 0.
SoleRunSucceeding ==
    /\ budget.calls = 1
    /\ Len(runs) = 1
    /\ runs[1].ok

\* The log of a run in which the first n stages were spawned one after the
\* other, each after the exit 0 of the one before.
InOrder(n) ==
    [k \in 1..(2 * n) |->
        IF k % 2 = 1 THEN Spawned((k - 1) \div 2) ELSE Exited((k - 2) \div 2, 0)]

IsPrefix(s, t) == Len(s) <= Len(t) /\ s = SubSeq(t, 1, Len(s))

\* What holds at every moment of a succeeding sole run: its spawns and exits
\* so far are the staged stages' in list order, each process is the one of
\* the stage at its index, and once the run has completed there were
\* exactly Len(staged) processes and both running flags are off.
SucceedingInOrder ==
    SoleRunSucceeding =>
        /\ IsPrefix(runs[1].log, InOrder(Len(staged)))
        /\ \A w \in Workers : th[w].spawned => th[w].sec = staged[th[w].idx + 1]
        /\ runs[1].completed =>
              /\ runs[1].log = InOrder(Len(staged))
              /\ ~is_sequence_running
              /\ ~is_running

\* C13: in a run over N stages in which every stage validates and every
\* process exits 0, with no stop and no second run call, exactly N processes
\* are spawned, one per stage in list order, the process of stage i+1 only
\* after the process of stage i exited 0, and the run then ends Completed
\* with the running flag off.
C13_SucceedingRun ==
    /\ []SucceedingInOrder
    /\ SoleRunSucceeding ~> (~SoleRunSucceeding \/ runs[1].completed)

\* A sole run over MaxStages stages completed after MaxStages processes.
C13_Witness ==
    /\ SoleRunSucceeding
    /\ runs[1].completed
    /\ Len(staged) = MaxStages
    /\ Len(runs[1].log) = 2 * MaxStages

-----------------------------------------------------------------------------
(* The environment validator *)

\* os.path.dirname(output_dir) is not the empty string (line 175).
has_parent(output_dir) == Len(output_dir) > 1

\* One call of _validate_pipeline_environment on a filesystem holding env.
validate_pipeline_environment_call ==
    /\ th[Ctl].pc = "idle"
    /\ \E env \in EnvFacts :
        /\ env.has_parent = has_parent(ctx.output_dir)
        /\ lastOp' = [NoOp EXCEPT !.op = "validate_pipeline_environment", !.env = env,
                                  !.ret = validate_pipeline_environment(env)]
        /\ put' = env_lines(validate_pipeline_environment(env))
    /\ status_calls' = <<>>
    /\ UNCHANGED <<staged, ctx, paths, current_step_index, is_sequence_running, is_running,
                   process, stop_event, th, runs, stopped, budget>>

\* The two directories chosen in the path selection window.
EnvInit ==
    /\ staged = <<>>
    /\ ctx \in [input_dir : {<<"in">>, <<"data", "in">>},
                output_dir : {<<"out">>, <<"data", "out">>}]
    /\ Idle

EnvNext == validate_pipeline_environment_call

\* The validator on every filesystem.
SpecEnv == EnvInit /\ [][EnvNext]_vars

\* The failures the validator is specified to have: no input directory; an
\* output directory that exists and is not writable; no output directory
\* and a parent directory that does not exist or is not writable.
SpecifiedFailure(env) ==
    \/ ~env.input_exists
    \/ env.output_exists /\ ~env.output_writable
    \/ /\ ~env.output_exists
       /\ env.has_parent
       /\ ~env.parent_exists \/ ~env.parent_writable

\* C14: the environment validator fails exactly when the input directory
\* does not exist, or the output directory exists and is not writable, or
\* the output directory does not exist and its parent does not exist or is
\* not writable; otherwise it passes.
C14_ValidatorFailsExactly ==
    lastOp.op = "validate_pipeline_environment" =>
        (lastOp.ret # "ok" <=> SpecifiedFailure(lastOp.env))

-----------------------------------------------------------------------------
(* A run that fails the environment validation *)

\* The validator put its error line in this step.
EnvironmentRejected ==
    \E i \in 1..Len(put') : put'[i].tag = "[Manager Error]: Global environment"

\* The last step was a run_sequence call that failed the environment
\* validation.
AbortedByEnvironment ==
    /\ put # <<>>
    /\ put[Len(put)] = Msg("[Manager Error]: Dataset Validation Failed. Aborting")

\* C15: a run() that fails the environment validation starts no thread and
\* no process and leaves the step index, the running flags, the staging
\* list and every stage's paths unchanged; a run() that follows it and
\* passes the validation starts at stage 0.
C15_EnvironmentFailure ==
    [][/\ (run_sequence /\ EnvironmentRejected) =>
              /\ th' = th
              /\ Len(runs') = Len(runs)
              /\ UNCHANGED <<current_step_index, is_sequence_running, is_running, process,
                             staged, paths>>
       /\ (AbortedByEnvironment /\ run_sequence /\ ~EnvironmentRejected) =>
              /\ current_step_index' = 0
              /\ is_sequence_running'
              /\ th'[Ctl].pc = "nx_check"
              /\ Len(runs') = Len(runs) + 1]_vars

\* The first run() of a staged pipeline failed the environment validation:
\* no run was started and every thread is at rest.
C15_Witness ==
    /\ AbortedByEnvironment
    /\ staged # <<>>
    /\ budget.calls = 1
    /\ runs = <<>>
    /\ ~is_sequence_running
    /\ \A t \in 1..Len(th) : th[t] = Rest(t)

-----------------------------------------------------------------------------
(* A stage that fails its validation *)

\* Thread t finds in this step that validate() of the current stage is
\* False: it does not go on to run_command.
ValidationFails(t) ==
    /\ th[t].pc = "nx_body"
    /\ current_step_index < Len(staged)
    /\ nx_body(t)
    /\ th'[t].pc # "rc_check"

\* One run_sequence call was made and started a run, and no stop_sequence
\* call was made.
SoleRun == budget.calls = 1 /\ Len(runs) = 1

\* In a sole run, a failed validation of stage i is the last entry of the
\* log, behind the spawns and exits 0 of the stages before i; no process of
\* the run is left and the run has ended.
NothingAfterInvalid ==
    SoleRun =>
        \A k \in 1..Len(runs[1].log) :
            runs[1].log[k].ev = "invalid" =>
                /\ k = Len(runs[1].log)
                /\ SubSeq(runs[1].log, 1, k - 1) = InOrder(runs[1].log[k].idx)
                /\ ~is_sequence_running
                /\ ~runs[1].completed
                /\ \A w \in Workers : th[w].pc = "done"

-----------------------------------------------------------------------------
(* A process that cannot be spawned *)

\* Worker w handles in this step the exception Popen raised.
SpawnFails(w) ==
    /\ th[w].pc = "except"
    /\ ~th[w].spawned
    /\ th'[w].pc # "except"

\* Worker w ends _on_sequence_step_finished for a step whose Popen raised.
SpawnFailureReported(w) ==
    /\ th[w].pc = "cb"
    /\ ~th[w].spawned
    /\ th[w].rc = -1
    /\ th'[w].pc # "cb"

\* C17: when spawning the process of a step fails, the executor puts a
\* "[System]" error line, turns is_running off and invokes the callback
\* with -1; the sequencer marks that step Failed, the run stops and the
\* worker starts no later stage.
C17_SpawnFailure ==
    [][\A w \in Workers :
          /\ SpawnFails(w) =>
                /\ put' = <<Msg("[System]: Error executing command:")>>
                /\ ~is_running'
                /\ th'[w].pc = "cb"
                /\ th'[w].rc = -1
          /\ SpawnFailureReported(w) =>
                /\ status_calls' = <<Status(th[w].idx, "Failed")>>
                /\ ~is_sequence_running'
                /\ th'[w] = Rest(w)]_vars

-----------------------------------------------------------------------------
(* The completion callback *)

RaiseStep == \E w \in Workers : nx_raise(w)

RaiseNext == RunNext \/ RaiseStep

\* Runs and stops of a staged pipeline whose sections' build_command can raise.
SpecRaise == RunInit /\ [][RaiseNext]_vars

\* C18: for every run_command call that was accepted, the completion
\* callback is invoked exactly once, never twice, whether the process exits
\* by itself, is stopped, cannot be spawned, or the callback itself raises
\* while launching the next step.
C18_CallbackOnce ==
    \A w \in Workers :
        /\ th[w].cbs <= 1
        /\ th[w].pc \in {"cb", "cb_inc"} => th[w].cbs = 1

-----------------------------------------------------------------------------
(* The output of the processes *)

OutputNext == RunNext \/ OutputStep

\* Runs and stops of a staged pipeline whose processes write up to MaxLines lines.
SpecOutput == RunInit /\ [][OutputNext]_vars

\* Worker w takes a line from the pipe in this step.
ReadsLine(w) == th[w].pc = "read" /\ th'[w].nread = th[w].nread + 1

\* Worker w leaves the read loop for the completion callback in this step.
LeavesLoop(w) == th[w].pc \in {"read", "wait"} /\ th'[w].pc = "cb"

\* C19: also after stop() on an active process the worker drains the output
\* to its end: every line it reads, the one read when the stop event was
\* already set included, is put on the queue, and every line the process
\* wrote has been read before the completion callback is invoked.
C19_DrainedAfterStop ==
    [][\A w \in Workers :
          /\ ReadsLine(w) =>
                put' = <<Line("line", th[w].nread + 1, th[w].sec, EmptyPath)>>
          /\ LeavesLoop(w) => th[w].nread = th[w].out]_vars

\* C20: the lines of one process are put on the queue in the order the
\* process wrote them, and no line of another process comes between two of
\* them.
C20_NoInterleaving ==
    [][\A w \in Workers :
          (ReadsLine(w) /\ put' # <<>>) =>
              /\ put' = <<Line("line", th[w].nread + 1, th[w].sec, EmptyPath)>>
              /\ ~th[w].cut]_vars

-----------------------------------------------------------------------------
(* The completion callback and the output *)

StopNext == SoleNext \/ stop_sequence

\* One run of a staged pipeline whose processes write up to MaxLines lines,
\* and the stop_sequence calls made during and after it.
SpecStopRun == RunInit /\ [][StopNext]_vars

\* The completion callback of worker w is invoked in this step.
CallbackStarts(w) == th'[w].cbs = th[w].cbs + 1

\* No worker whose callback was invoked is in its read loop.
NoReaderAfterCallback ==
    \A w \in Workers : th[w].cbs > 0 => th[w].pc \notin {"start", "read", "wait"}

-----------------------------------------------------------------------------
(* Failures and the output queue *)

\* run_sequence is called on a staged pipeline and does not enter a run.
EnvironmentAborts ==
    /\ staged # <<>>
    /\ run_sequence
    /\ th'[Ctl].pc # "nx_check"

\* C22: every failure puts at least one line on the output queue: run() on
\* the empty staging list, a failed environment check, a failed stage
\* validation, a nonzero exit, a process that cannot be spawned, and a
\* start rejected because a process is active.
C22_FailuresPutALine ==
    [][/\ (staged = <<>> /\ run_sequence) => put' # <<>>
       /\ EnvironmentAborts => put' # <<>>
       /\ \A t \in 1..Len(th) :
             /\ ValidationFails(t) => put' # <<>>
             /\ RejectedStart(t) => put' # <<>>
       /\ \A w \in Workers :
             /\ FailedStep(w) => put' # <<>>
             /\ SpawnFails(w) => put' # <<>>]_vars

\* The step of a process that exited nonzero was reported on the queue.
C22_Witness ==
    /\ put = <<Msg("[Manager Error]: Aborted due to failed step")>>
    /\ \E i \in 0..(Len(staged) - 1) : status_calls = <<Status(i, "Failed")>>
    /\ ~is_sequence_running

-----------------------------------------------------------------------------
(* A run of a list that is out of order *)

\* The lists of up to MaxStages stages of the pipeline, in any order: what
\* toggles followed by move_staged_item calls leave staged.
StagedOrders ==
    {list \in UNION {[1..n -> Range(Pipeline)] : n \in 1..MaxStages} :
        \A i, j \in 1..Len(list) : i # j => list[i] # list[j]}

OrderInit ==
    /\ staged \in StagedOrders
    /\ ctx = [input_dir |-> <<"in">>, output_dir |-> <<"out">>]
    /\ Idle

\* One run_sequence call on a list staged in any order.
SpecAnyOrder == OrderInit /\ [][SoleNext]_vars

\* C23: when _validate_order fails at run start on a non-empty list, run()
\* puts a "[Manager WARNING]" line and goes on to the environment
\* validation: the run is entered unless that validation fails, and its
\* stages are executed in their staged order.
C23_OrderIsAdvisory ==
    /\ [][(run_sequence /\ ~validate_order(staged)) =>
             /\ put' # <<>>
             /\ put'[1] = Msg("[Manager WARNING]: Pipeline appears out of order. Running anyway...")
             /\ \/ EnvironmentRejected /\ th' = th
                \/ /\ ~EnvironmentRejected
                   /\ is_sequence_running'
                   /\ current_step_index' = 0
                   /\ th'[Ctl].pc = "nx_check"]_vars
    /\ []SucceedingInOrder

\* A run over MaxStages stages staged out of order has completed.
C23_Witness ==
    /\ ~validate_order(staged)
    /\ Len(staged) = MaxStages
    /\ SoleRunSucceeding
    /\ runs[1].completed
    /\ runs[1].log = InOrder(MaxStages)

-----------------------------------------------------------------------------
(* More properties of the staging list *)

NoDuplicates(list) == \A i, j \in 1..Len(list) : i # j => list[i] # list[j]

\* C24: in every state reached by toggles and moves the staging list holds
\* no stage twice.
C24_NoDuplicates == NoDuplicates(staged)

\* A move swapped two stages of a list of three or more stages.
C24_Witness ==
    /\ lastOp.op = "move"
    /\ lastOp.ret = "True"
    /\ staged # lastOp.before
    /\ Len(staged) >= 3

-----------------------------------------------------------------------------
(* Ordering under any assignment of ranks *)

\* The values PipelineCategory.stage_index is given (category.py, line 22).
RankAssignments == [1..Len(Categories) -> MinRank..MaxRank]

\* cat.stage_index of the section's category under the assignment ranks.
rank_by(ranks, section) == ranks[CategoryOf[section]]

\* _validate_order under the assignment ranks.
RECURSIVE validate_order_by(_, _, _, _)
validate_order_by(ranks, list, i, last_index) ==
    IF i > Len(list) THEN TRUE
    ELSE IF rank_by(ranks, list[i]) < last_index THEN FALSE
    ELSE validate_order_by(ranks, list, i + 1, rank_by(ranks, list[i]))

validate_order_ranked(ranks, list) == validate_order_by(ranks, list, 1, -1)

\* One pass of the for statement of lines 59-65 under the assignment ranks.
RECURSIVE repair_pass_by(_, _, _, _)
repair_pass_by(ranks, list, index, last_index) ==
    IF index >= Len(list) THEN list
    ELSE LET section == list[index + 1]
         IN  IF rank_by(ranks, section) < last_index
             THEN repair_pass_by(ranks, move_staged_item(list, index, -1).list, index + 1,
                                 rank_by(ranks, section))
             ELSE repair_pass_by(ranks, list, index + 1, rank_by(ranks, section))

rankFrame == <<ctx, paths, current_step_index, is_sequence_running, is_running, process,
               stop_event, put, status_calls, th, runs, stopped>>

\* toggle_section_stage(section, True), lines 46-57: the eviction and the
\* append; the while loop of line 58 follows.
ranked_toggle_on ==
    /\ lastOp.op # "repairing"
    /\ budget.edits < MaxEdits
    /\ budget' = [budget EXCEPT !.edits = @ + 1]
    /\ \E section \in Sections :
          /\ staged' = IF ~is_staged(staged, section)
                       THEN Append(single_select(staged, section), section)
                       ELSE staged
          /\ lastOp' = [lastOp EXCEPT !.op = "repairing", !.section = section,
                                      !.active = TRUE, !.before = staged, !.passes = 0]
    /\ UNCHANGED rankFrame

\* The while statement of line 58: the loop is left when _validate_order
\* holds, and makes one pass of its body otherwise.
ranked_repair ==
    /\ lastOp.op = "repairing"
    /\ IF validate_order_ranked(lastOp.ranks, staged)
       THEN /\ lastOp' = [lastOp EXCEPT !.op = "toggle"]
            /\ UNCHANGED staged
       ELSE /\ lastOp.passes < MaxPasses
            /\ staged' = repair_pass_by(lastOp.ranks, staged, 0, -1)
            /\ lastOp' = [lastOp EXCEPT !.passes = @ + 1]
    /\ UNCHANGED <<rankFrame, budget>>

\* One call of _validate_order.
ranked_validate ==
    /\ lastOp.op # "repairing"
    /\ lastOp' = [lastOp EXCEPT !.op = "validate_order", !.before = staged,
                     !.ret = IF validate_order_ranked(lastOp.ranks, staged)
                             THEN "True" ELSE "False"]
    /\ UNCHANGED <<staged, rankFrame, budget>>

\* A list staged in any order, under any assignment of ranks to the
\* categories.
RanksInit ==
    /\ staged \in StagedOrders \cup {<<>>}
    /\ ctx = [input_dir |-> EmptyPath, output_dir |-> EmptyPath]
    /\ paths = NoPaths
    /\ current_step_index = 0
    /\ is_sequence_running = FALSE
    /\ is_running = FALSE
    /\ process = NoProcess
    /\ stop_event = FALSE
    /\ put = <<>>
    /\ status_calls = <<>>
    /\ th = [t \in 1..(MaxCalls + 1) |-> Rest(t)]
    /\ runs = <<>>
    /\ stopped = {}
    /\ budget = [calls |-> 0, edits |-> 0]
    /\ \E ranks \in RankAssignments : lastOp = [NoOp EXCEPT !.ranks = ranks]

RanksNext == ranked_toggle_on \/ ranked_repair \/ ranked_validate

\* Activations and order checks under every assignment of ranks.
SpecRanks == RanksInit /\ [][RanksNext]_vars

\* C25: toggle(stage, active = true) terminates for every staging list and
\* every assignment of integer ranks: the order-repair loop is left, with
\* _validate_order true, before it has made MaxPasses passes.
C25_RepairTerminates ==
    lastOp.op = "repairing" =>
        (lastOp.passes < MaxPasses \/ validate_order_ranked(lastOp.ranks, staged))

\* I1 on a list under the assignment ranks.
I1_by(ranks, list) ==
    \A i \in 1..(Len(list) - 1) : rank_by(ranks, list[i]) <= rank_by(ranks, list[i + 1])

\* C26: _validate_order changes no state and returns true exactly when the
\* list satisfies I1, for every list (a one-element list included) and
\* every assignment of integer ranks.
C26_ValidateOrderIsI1 ==
    lastOp.op = "validate_order" =>
        /\ staged = lastOp.before
        /\ lastOp.ret = "True" <=> I1_by(lastOp.ranks, staged)

-----------------------------------------------------------------------------
(* Notifications, the contract of move, and repeated activation *)

\* C27: every list a staging listener re-reads when it is notified, the
\* notifications fired by the moves of a repairing toggle included,
\* satisfies I1 and I2.
C27_NotifiedListsInOrder ==
    \A k \in 1..Len(lastOp.notified) : I1(lastOp.notified[k]) /\ I2(lastOp.notified[k])

\* The list with the elements at positions p and q (from 1) exchanged.
Swapped(list, p, q) == [list EXCEPT ![p] = list[q], ![q] = list[p]]

\* C28: move_staged_item(index, direction) either returns failure, with the
\* list unchanged and no notification, or returns success after exchanging
\* exactly the elements at index and index + direction, both within
\* 0..len-1, and notifying.
C28_MoveContract ==
    lastOp.op = "move" =>
        \/ /\ lastOp.ret = "False"
           /\ staged = lastOp.before
           /\ lastOp.notified = <<>>
        \/ /\ lastOp.ret = "True"
           /\ lastOp.index \in 0..(Len(lastOp.before) - 1)
           /\ lastOp.index + lastOp.direction \in 0..(Len(lastOp.before) - 1)
           /\ staged = Swapped(lastOp.before, lastOp.index + 1,
                               lastOp.index + lastOp.direction + 1)
           /\ lastOp.notified = <<staged>>

\* The last operation activated a stage that was staged already.
ActivatedStaged ==
    /\ lastOp.op = "toggle"
    /\ lastOp.active
    /\ lastOp.section \in Range(lastOp.before)

\* C30: toggle(stage, active = true) on a stage already in the staging list
\* leaves the list's contents and order as they were.
C30_ActivateStagedIsNoOp == ActivatedStaged => staged = lastOp.before

-----------------------------------------------------------------------------
(* stop() between an accepted start and its process *)

\* Worker w runs the process of a start that run_command accepted before
\* stop() was called on its run.
StoppedInFlight(w) ==
    /\ th[w].alive
    /\ th[w].run \in stopped
    /\ ~th[w].late

\* C29: when stop() is called while the executor's is_running flag is on,
\* also between an accepted start and the spawning of its process,
\* termination is requested for the process of that start: no process of a
\* start accepted before the stop runs without terminate() called on it.
C29_StopReachesInFlightStart ==
    \A w \in Workers : StoppedInFlight(w) => th[w].term

-----------------------------------------------------------------------------
(* Deactivation *)

\* The last operation was toggle(section, active = false).
Deactivated == lastOp.op = "toggle" /\ ~lastOp.active

\* The stages of list other than section, in their order.
Others(list, section) == SelectSeq(list, LAMBDA s : s # section)

\* C31: toggle(stage, active = false) removes exactly that stage if it is
\* staged, keeping every other stage and their relative order, so that a
\* list satisfying I1 still satisfies it, and leaves the list unchanged if
\* the stage is not staged.
C31_DeactivateRemovesExactly ==
    Deactivated =>
        /\ staged = Others(lastOp.before, lastOp.section)
        /\ lastOp.section \in Range(lastOp.before) => Len(staged) = Len(lastOp.before) - 1
        /\ lastOp.section \notin Range(lastOp.before) => staged = lastOp.before
        /\ I1(lastOp.before) => I1(staged)

\* A stage in the middle of an ordered list of three was deactivated.
C31_Witness ==
    /\ Deactivated
    /\ Len(lastOp.before) = 3
    /\ lastOp.before[2] = lastOp.section
    /\ I1(lastOp.before)
    /\ staged = <<lastOp.before[1], lastOp.before[3]>>

-----------------------------------------------------------------------------
(* Every run comes to an end *)

\* _run_next_in_sequence, lines 185-231, on the Tk thread inside
\* run_sequence, when section.build_command() raises (line 231;
\* BlurCommandBuilder.build, line 35: int(float("inf")) is an OverflowError
\* that its except clause does not name): the paths are set and logged, and
\* the exception leaves run_sequence for the Tk main loop.
nx_raise_tk ==
    /\ th[Ctl].pc = "nx_body"
    /\ current_step_index < Len(staged)
    /\ staged[current_step_index + 1] = "Blur Filter"
    /\ LET i == current_step_index
           section == staged[i + 1]
       IN  /\ paths' = [paths EXCEPT ![section] =
                          [input_path |-> current_input_of(i),
                           output_path |-> current_output_of(i)]]
           /\ put' = <<Line("[Manager]: Starting Step", i + 1, section, EmptyPath),
                       Line("   -> Input:", 0, "", current_input_of(i)),
                       Line("   -> Output:", 0, "", current_output_of(i))>>
    /\ th' = [th EXCEPT ![Ctl] = Rest(Ctl)]
    /\ status_calls' = <<>>
    /\ UNCHANGED <<staged, lastOp, ctx, current_step_index, is_sequence_running, is_running,
                   process, stop_event, runs, stopped, budget>>

RaiseFirstNext == RaiseNext \/ nx_raise_tk

\* Runs and stops of a pipeline staged in any order whose sections'
\* build_command can raise, on the Tk thread too.
SpecRaiseFirst == OrderInit /\ [][RaiseFirstNext]_vars

\* Both flags are off: the sequencer's and the executor's.
BothOff == ~is_sequence_running /\ ~is_running

\* No code of the program is running: the Tk thread is in its main loop,
\* every worker thread has ended and no process is alive.
Quiescent ==
    /\ th[Ctl].pc = "idle"
    /\ \A w \in Workers : th[w].pc = "done" /\ ~th[w].alive

\* C32: every run that enters Running comes to a terminal state in which
\* the sequencer's running flag and the executor's active flag are both
\* off, under any interleaving of run() and stop() calls: when every thread
\* has come to rest and every process has exited, both flags are off.
C32_RunEnds == Quiescent => BothOff

-----------------------------------------------------------------------------
(* The statuses of finished steps *)

\* The completion callback of worker w notifies "Completed" or "Failed" in
\* this step.
FinishNotified(w) == th[w].pc = "cb" /\ th'[w].pc # "cb"

\* C33: whenever status (i, "Completed") or (i, "Failed") is notified, the
\* process that just finished was started for the stage at staging index i
\* in the current run, (i, "Running") was notified earlier in that run, and
\* index i had no Completed or Failed notification in that run before.
C33_FinishedStatus ==
    [][\A w \in Workers :
          FinishNotified(w) =>
              LET i == status_calls'[1].idx
              IN  /\ i = th[w].idx
                  /\ th[w].run = Len(runs)
                  /\ budget.calls = 1 =>
                        /\ Status(i, "Running") \in runs[th[w].run].notes
                        /\ Status(i, "Completed") \notin runs[th[w].run].notes
                        /\ Status(i, "Failed") \notin runs[th[w].run].notes]_vars

-----------------------------------------------------------------------------
(* The end of a process and the start of the next *)

\* C34: at the end of a process the executor turns is_running off and puts
\* its final line before it invokes the callback, so that a run_command
\* call made inside the callback, by the sequencer on the worker thread, is
\* accepted and never rejected as already running.
C34_ContinuationStartAccepted ==
    [][\A w \in Workers :
          /\ CallbackStarts(w) => ~is_running' /\ put' # <<>>
          /\ ~RejectedStart(w)]_vars

-----------------------------------------------------------------------------
(* set_paths and the processes of a run *)

\* Thread t passes line 225 in this step: set_paths is called on the section
\* of the current step, whose validate() returned True.
SetPathsCalled(t) == th[t].pc = "nx_body" /\ th'[t].pc = "rc_check"

\* C35: set_paths is invoked on a stage once for each process started for
\* it, after its validate() succeeded and before build_command, and never
\* for a step for which no process is then started: paths change only in a
\* step that goes on to run_command, and the run_command call that follows
\* a set_paths call is never rejected.
C35_SetPathsOncePerExecution ==
    [][\A t \in 1..Len(th) :
          /\ (th[t].pc = "nx_body" /\ paths' # paths) => SetPathsCalled(t)
          /\ SetPathsCalled(t) =>
                paths'[th'[t].sec] = [input_path |-> current_input_of(th'[t].idx),
                                      output_path |-> current_output_of(th'[t].idx)]
          /\ th[t].pc = "rc_check" => ~RejectedStart(t)]_vars

-----------------------------------------------------------------------------
(* The relocations of the order repair *)

\* The number of pairs of positions of list whose stages are in the wrong
\* order of rank.
Inversions(list) ==
    Cardinality({<<i, j>> \in (1..Len(list)) \X (1..Len(list)) :
                    i < j /\ stage_index(list[i]) > stage_index(list[j])})

\* The last operation was a toggle whose repair relocated a stage.
Repaired == lastOp.op = "toggle" /\ lastOp.calls # <<>>

\* C36: every relocation made by the order repair of toggle exchanges two
\* adjacent stages of which the earlier has the strictly greater rank, so it
\* lowers the number of rank inversions and never reorders two stages of
\* equal rank.
C36_RelocationsFixInversions ==
    Repaired =>
        \A k \in 1..Len(lastOp.calls) :
            LET c == lastOp.calls[k]
            IN  /\ c.ret = "True"
                /\ c.direction = -1
                /\ c.index \in 1..(Len(c.before) - 1)
                /\ c.after = Swapped(c.before, c.index, c.index + 1)
                /\ stage_index(c.before[c.index]) > stage_index(c.before[c.index + 1])
                /\ Inversions(c.after) < Inversions(c.before)

\* A repair that made two relocations in a list with two inversions.
C36_Witness ==
    /\ Repaired
    /\ Len(lastOp.calls) >= 2
    /\ Inversions(lastOp.calls[1].before) >= 2
    /\ Inversions(staged) = 0

-----------------------------------------------------------------------------
(* stop() on an idle executor *)

\* C37: stop() while is_running is off leaves is_running, the process handle
\* and the stop event as they were and requests no termination, and stop()
\* puts a notice on the queue both when a process is active and when none
\* is.
C37_StopNotice ==
    [][stop_sequence =>
          /\ put' # <<>>
          /\ ~is_running =>
                /\ UNCHANGED <<is_running, process, stop_event>>
                /\ \A w \in Workers : th'[w].term = th[w].term]_vars

-----------------------------------------------------------------------------
(* The paths injected in a run *)

\* Two or more sections of the pipeline staged in any order, with the
\* output directory either apart from the input directory or the same.
PathsInit ==
    /\ staged \in {list \in UNION {[1..n -> Range(Pipeline)] : n \in 2..(MaxStages + 1)} :
                      \A i, j \in 1..Len(list) : i # j => list[i] # list[j]}
    /\ ctx \in {[input_dir |-> <<"in">>, output_dir |-> d] : d \in {<<"out">>, <<"in">>}}
    /\ Idle

\* One run_sequence call on two or more staged sections.
SpecPaths == PathsInit /\ [][SoleNext]_vars

\* C38: in a run over two or more staged stages with unique names, the
\* output path injected into a stage differs from the output path injected
\* into every earlier stage of the run, and a stage at index 1 or more
\* receives an output path that differs from its input path.
C38_DistinctOutputPaths ==
    [][\A t \in 1..Len(th) :
          SetPathsCalled(t) =>
              LET i == th'[t].idx
                  injected == paths'[staged[i + 1]]
              IN  /\ \A j \in 0..(i - 1) :
                        paths'[staged[j + 1]].output_path # injected.output_path
                  /\ i >= 1 => injected.output_path # injected.input_path]_vars

\* A run over three stages came to its end with three different output
\* paths injected.
C38_Witness ==
    /\ runs # <<>>
    /\ runs[1].completed
    /\ Len(staged) = 3
    /\ paths[staged[3]].output_path = ctx.output_dir
    /\ paths[staged[3]].input_path = paths[staged[2]].output_path
    /\ Cardinality({paths[staged[k]].output_path : k \in 1..3}) = 3

=============================================================================
